---- MODULE Spec2Model ----
(***************************************************************************)
(* Event Service of backend/app.py: five HTTP handlers in front of a       *)
(* document container keyed by id.  The container is the only shared       *)
(* state; every handler is a sequence of container calls, and the calls of *)
(* concurrent requests interleave.                                         *)
(*                                                                         *)
(* Strings that are only tested for emptiness and equality (name, date,    *)
(* description, error messages) are TLA+ strings.  Ids are sequences of    *)
(* character codes, because the container orders them (MAX(c.id)) and the  *)
(* handler parses and prints them (int(), str()).                          *)
(***************************************************************************)
EXTENDS Integers, Sequences, FiniteSets, TLC

\* ------------------------------------------------------------------ bounds
\* Requests admitted in one behaviour of Spec.
MaxReqs == 3
\* Requests admitted in one behaviour of RunSpec (a run of creates).
MaxRun == 13
\* Requests admitted in one behaviour of TextSpec.
MaxTextReqs == 2
\* Requests admitted in one behaviour of FairSpec.
MaxFairReqs == 2

\* ------------------------------------------------------- character strings
Digits == 48..57

\* The id strings used below: "1", "9", "a", "".
Id1 == <<49>>
Id9 == <<57>>
IdA == <<97>>
IdEmpty == <<>>

\* s < t in the ordinal (code point) order the container compares strings by.
RECURSIVE StrLess(_, _)
StrLess(s, t) ==
    IF t = <<>> THEN FALSE
    ELSE IF s = <<>> THEN TRUE
    ELSE IF Head(s) # Head(t) THEN Head(s) < Head(t)
    ELSE StrLess(Tail(s), Tail(t))

\* Python int(s) on a string of the model's alphabet: ValueError unless s is
\* a non-empty run of decimal digits.
RECURSIVE DigitsValue(_)
DigitsValue(s) ==
    IF s = <<>> THEN 0
    ELSE 10 * DigitsValue(SubSeq(s, 1, Len(s) - 1)) + (s[Len(s)] - 48)

IsIntString(s) == s # <<>> /\ \A i \in 1..Len(s) : s[i] \in Digits

\* Python str(n) for n >= 0.
RECURSIVE IntToStr(_)
IntToStr(n) ==
    IF n < 10 THEN <<48 + n>>
    ELSE Append(IntToStr(n \div 10), 48 + (n % 10))

\* ------------------------------------------------------------ the container
\* A stored document.
Doc(id, name, date, description) ==
    [id |-> id, name |-> name, date |-> date, description |-> description]

StoredIds(s) == {d.id : d \in s}

\* container.query_items("SELECT VALUE MAX(c.id) FROM c"): the list of results,
\* empty for an empty container, else the one greatest id in string order.
QueryMaxId(s) ==
    IF s = {} THEN <<>>
    ELSE <<CHOOSE m \in StoredIds(s) :
              \A i \in StoredIds(s) : i = m \/ StrLess(i, m)>>

\* container.read_item(item=id, partition_key=id): the documents found (none
\* raises CosmosResourceNotFoundError).
ReadItem(s, id) == {d \in s : d.id = id}

CreateConflictNever(s, item) == FALSE

\* container.create_item(body=item): the container afterwards; the call raises
\* CosmosResourceExistsError when CreateConflict holds.
CreateConflict(s, item) == item.id \in StoredIds(s)
CreateItem(s, item) == s \cup {item}

ReplaceMissingNever(s, id) == FALSE

\* container.replace_item(item=existing, body=body): raises
\* CosmosResourceNotFoundError when ReplaceMissing holds.
ReplaceMissing(s, id) == id \notin StoredIds(s)
ReplaceItem(s, id, body) == {d \in s : d.id # id} \cup {body}

\* container.delete_item(item=id, partition_key=id): raises
\* CosmosResourceNotFoundError when DeleteMissing holds.
DeleteMissing(s, id) == id \notin StoredIds(s)
DeleteItem(s, id) == {d \in s : d.id # id}

\* ------------------------------------------------------------ request bodies
\* request.get_json(): a parsed JSON object (obj: its keys and values), JSON
\* null, or a body that does not parse (get_json raises BadRequest).
ObjectBody(obj) == [kind |-> "object", obj |-> obj]
NullBody == [kind |-> "null", obj |-> <<>>]
MalformedBody == [kind |-> "malformed", obj |-> <<>>]

Has(obj, k) == k \in DOMAIN obj

\* Python truthiness of data.get(k): the key is present and its string is not
\* empty (FieldTruthy for name, date, description; IdTruthy for id).
FieldTruthy(obj, k) == Has(obj, k) /\ obj[k] # ""
IdTruthy(obj) == Has(obj, "id") /\ obj["id"] # <<>>

\* `not data`: None and the empty object are both falsy.
NotData(body) == body.kind # "object" \/ DOMAIN body.obj = {}

\* An object from optional values: each argument is a set holding the value of
\* its key, or empty when the key is absent.
MakeObj(i, n, d, e) ==
    [k \in ((IF i = {} THEN {} ELSE {"id"}) \cup (IF n = {} THEN {} ELSE {"name"})
            \cup (IF d = {} THEN {} ELSE {"date"})
            \cup (IF e = {} THEN {} ELSE {"description"})) |->
        IF k = "id" THEN CHOOSE v \in i : TRUE
        ELSE IF k = "name" THEN CHOOSE v \in n : TRUE
        ELSE IF k = "date" THEN CHOOSE v \in d : TRUE
        ELSE CHOOSE v \in e : TRUE]

\* --------------------------------------------------------------- the inputs
\* Request slots: a request in flight holds one.  An arriving request takes
\* the lowest free slot.
Procs == 1..2

\* Outcome of one container call: it answers, or it raises an exception: a
\* CosmosHttpResponseError that is neither not-found nor already-exists
\* ("http"), or an exception of another class ("other").  An exception
\* carries the text the container gives it.
Answered == [class |-> "none", text |-> ""]
Raised(classes, texts) == {[class |-> c, text |-> t] : c \in classes, t \in texts}

\* The texts of the exceptions: one where the text makes no difference to the
\* property checked, two where it could.
Texts == {"Request rate is large"}
TwoTexts == {"Request rate is large", "Service unavailable"}

Faults == {Answered} \cup Raised({"http", "other"}, Texts)

\* Every call but create_item sits under one catch-all handler (or, the MAX
\* query, under none but handle_exception), where the class of the failure
\* makes no difference: one class stands for both.
CatchAllFaults == {Answered} \cup Raised({"other"}, Texts)

\* Bodies of POST /events.  Accepted: id absent, empty or given, two names.
\* Rejected: name, date or description absent or empty (without an id, and
\* with one), the empty object, JSON null, and a body that does not parse.
ValidBodies ==
    {ObjectBody(MakeObj(i, n, {"D"}, {"E"})) :
        i \in {{}, {IdEmpty}, {IdA}}, n \in {{"A"}, {"B"}}}

InvalidBodies ==
    {ObjectBody(MakeObj({}, n, {"D"}, {"E"})) : n \in {{}, {""}}}
    \cup {ObjectBody(MakeObj({}, {"A"}, {""}, {"E"})),
          ObjectBody(MakeObj({IdA}, {"A"}, {"D"}, {})),
          ObjectBody(MakeObj({}, {}, {}, {})), NullBody, MalformedBody}

CreateBodies == ValidBodies \cup InvalidBodies

\* Bodies of PUT /events/{id}: the empty object, one key, all keys, an id key,
\* JSON null, and a body that does not parse.
UpdateBodies ==
    {ObjectBody(MakeObj({}, n, {}, {})) : n \in {{}, {""}, {"B"}}}
    \cup {ObjectBody(MakeObj({}, {}, {"D2"}, {})),
          ObjectBody(MakeObj({}, {"B"}, {"D2"}, {"E2"})),
          ObjectBody(MakeObj({IdA}, {"B"}, {}, {})),
          NullBody, MalformedBody}

\* Ids in the path of GET, PUT and DELETE /events/{id}.
PathIds == {Id1, Id9, IdA}

\* The one body of the scenario of RunSpec.
RunBodies == {ObjectBody(MakeObj({}, {"A"}, {"D"}, {"E"}))}

\* ------------------------------------------------------- the handlers' logic
ValidCreateNoDescription(body) ==
    /\ ~NotData(body)
    /\ FieldTruthy(body.obj, "name")
    /\ FieldTruthy(body.obj, "date")

\* create_event's presence check: the body is accepted.
ValidCreate(body) ==
    /\ ~NotData(body)
    /\ FieldTruthy(body.obj, "name")
    /\ FieldTruthy(body.obj, "date")
    /\ FieldTruthy(body.obj, "description")

\* current_max_id from the result list of the MAX query: 0 unless the list
\* has a first element that int() accepts.
CurrentMaxId(result) ==
    IF result # <<>> /\ IsIntString(result[1]) THEN DigitsValue(result[1]) ELSE 0

\* The id create_event computes when the body carries none.
ComputedId(s) == IntToStr(CurrentMaxId(QueryMaxId(s)) + 1)

EventItemNameAsDescription(id, obj) == Doc(id, obj["name"], obj["date"], obj["name"])

\* event_item of create_event.
EventItem(id, obj) == Doc(id, obj["name"], obj["date"], obj["description"])

UpdatedItemDataDateFallback(existing, obj) ==
    Doc(existing.id,
        IF Has(obj, "name") THEN obj["name"] ELSE existing.name,
        IF Has(obj, "date") THEN obj["date"] ELSE existing.description,
        IF Has(obj, "description") THEN obj["description"] ELSE existing.description)

UpdatedItemDataPayloadId(existing, obj) ==
    Doc(IF Has(obj, "id") THEN obj["id"] ELSE existing.id,
        IF Has(obj, "name") THEN obj["name"] ELSE existing.name,
        IF Has(obj, "date") THEN obj["date"] ELSE existing.date,
        IF Has(obj, "description") THEN obj["description"] ELSE existing.description)

\* updated_item_data of update_event.
UpdatedItemData(existing, obj) ==
    Doc(existing.id,
        IF Has(obj, "name") THEN obj["name"] ELSE existing.name,
        IF Has(obj, "date") THEN obj["date"] ELSE existing.date,
        IF Has(obj, "description") THEN obj["description"] ELSE existing.description)

\* The error messages of the service.
MsgMissingFields == "Missing required fields: name, date, description"
MsgExists == "Event with this ID already exists"
MsgDatabase == "Database error"
MsgInternal == "Internal server error"
MsgNotFound == "Event not found"
MsgNoBody == "Request body is missing"

\* ------------------------------------------------------------------- state
VARIABLES
    store,          \* the documents of the container
    pc,             \* per request slot: "idle", "create_insert", "update_replace"
    data,           \* per slot: the body of the request in flight
    event_id,       \* per slot: event_id of the request in flight
    existing_item,  \* per slot: what update_event read (a set of 0 or 1 documents)
    nreq,           \* requests admitted so far
    resp,           \* the request handled by the last step and its response
    deleted,        \* history: ids deleted with 204 and not created since
    fresh,          \* history: documents returned by a 201 and not updated or deleted since
    race,           \* history: of two creates in flight with the same computed id, the
                    \* slot still to insert and the status the other got, while no
                    \* further request has arrived
    run,            \* history: the creates of an undisturbed run of creates from the empty store
    phase,          \* history: "creating", "deleted" (the first record was deleted), "other"
    first,          \* history: the record returned by the first create of the run
    overlap         \* history: of two updates of one id in flight together, the slot
                    \* still to replace, the payload of the one that replaced with 200
                    \* and the record stored before it did, while no further request
                    \* has arrived

vars == <<store, pc, data, event_id, existing_item, nreq, resp,
          deleted, fresh, race, run, phase, first, overlap>>

ResponseWithExceptionText(p, op, id, body, f, status, error, docs) ==
    [proc |-> p, op |-> op, id |-> id, data |-> body, fault |-> f,
     status |-> status, error |-> IF f.class = "none" THEN error ELSE f.text,
     body |-> docs]

\* What a step records: the slot, the handler, the id in the path (for create:
\* the id given or computed), the request body, the failure of the container
\* call, and the response: its status (0 while the request is in flight), its
\* error message, and the documents of its body (one for a record, all for a
\* list).
Response(p, op, id, body, f, status, error, docs) ==
    [proc |-> p, op |-> op, id |-> id, data |-> body, fault |-> f,
     status |-> status, error |-> error, body |-> docs]

NoRace == [waiting |-> 0, first |-> 0]
NoOverlap == [waiting |-> 0, obj |-> <<>>, base |-> {}]

\* The container exists before the service starts (it is created only if it
\* does not exist): it is empty, or it holds an event of an earlier run.
InitialStores == {{}, {Doc(Id9, "A", "D", "E")}}

Init ==
    /\ store \in InitialStores
    /\ pc = [p \in Procs |-> "idle"]
    /\ data = [p \in Procs |-> NullBody]
    /\ event_id = [p \in Procs |-> <<>>]
    /\ existing_item = [p \in Procs |-> {}]
    /\ nreq = 0
    /\ resp = Response(0, "none", <<>>, NullBody, Answered, 0, "", {})
    /\ deleted = {}
    /\ fresh = {}
    /\ race = NoRace
    /\ run = 0
    /\ phase = IF store = {} THEN "creating" ELSE "other"
    /\ first = {}
    /\ overlap = NoOverlap

\* The slot goes back to idle.
Finish(p) ==
    /\ pc' = [pc EXCEPT ![p] = "idle"]
    /\ data' = [data EXCEPT ![p] = NullBody]
    /\ event_id' = [event_id EXCEPT ![p] = <<>>]
    /\ existing_item' = [existing_item EXCEPT ![p] = {}]

\* The run of creates is disturbed.
Disturb == run' = 0 /\ phase' = "other" /\ first' = {}

Alone(p) == \A q \in Procs \ {p} : pc[q] = "idle"

\* Slot p takes the arriving request.
Admit(p, lim) ==
    /\ pc[p] = "idle"
    /\ \A q \in Procs : q < p => pc[q] # "idle"
    /\ nreq < lim
    /\ nreq' = nreq + 1
    /\ race' = NoRace
    /\ overlap' = NoOverlap

\* A request that leaves the run of creates undisturbed: it is alone and its
\* container call answers.
Quiet(p, f) ==
    IF f.class = "none" /\ Alone(p) THEN UNCHANGED <<run, phase, first>> ELSE Disturb

RejectAfterDelete(p, op, id, body, f, status, error) ==
    /\ resp' = Response(p, op, id, body, f, status, error, {})
    /\ store' = DeleteItem(store, id)
    /\ UNCHANGED <<pc, data, event_id, existing_item>>

RejectFailureAsNotFound(p, op, id, body, f, status, error) ==
    /\ resp' = Response(p, op, id, body, f,
                        IF f.class = "none" THEN status ELSE 404, error, {})
    /\ UNCHANGED <<store, pc, data, event_id, existing_item>>

\* The request of slot p ends in its first step, with no effect on the container.
Reject(p, op, id, body, f, status, error) ==
    /\ resp' = Response(p, op, id, body, f, status, error, {})
    /\ UNCHANGED <<store, pc, data, event_id, existing_item>>

\* ----------------------------------------------------------------- actions
\* POST /events, up to the call of create_item: the presence check and the
\* choice of event_id (with the MAX query when the body gives no id).
create_event_begin(p, body, f, lim) ==
    /\ Admit(p, lim)
    /\ UNCHANGED <<deleted, fresh>>
    /\ IF body.kind = "malformed"
       THEN \* get_json raises; handle_exception answers
            /\ f.class = "none"
            /\ Reject(p, "create_event", <<>>, body, f, 500, MsgInternal)
            /\ Disturb
       ELSE IF ~ValidCreate(body)
       THEN /\ f.class = "none"
            /\ Reject(p, "create_event", <<>>, body, f, 400, MsgMissingFields)
            /\ Disturb
       ELSE IF IdTruthy(body.obj)
       THEN /\ f.class = "none"
            /\ pc' = [pc EXCEPT ![p] = "create_insert"]
            /\ data' = [data EXCEPT ![p] = body]
            /\ event_id' = [event_id EXCEPT ![p] = body.obj["id"]]
            /\ resp' = Response(p, "create_event", body.obj["id"], body, f, 0, "", {})
            /\ UNCHANGED <<store, existing_item>>
            /\ Disturb
       ELSE IF f.class # "none"
       THEN \* the MAX query raises outside any try; handle_exception answers
            /\ Reject(p, "create_event", <<>>, body, f, 500, MsgInternal)
            /\ Disturb
       ELSE /\ pc' = [pc EXCEPT ![p] = "create_insert"]
            /\ data' = [data EXCEPT ![p] = body]
            /\ event_id' = [event_id EXCEPT ![p] = ComputedId(store)]
            /\ resp' = Response(p, "create_event", ComputedId(store), body, f, 0, "", {})
            /\ UNCHANGED <<store, existing_item>>
            /\ Quiet(p, f)

\* POST /events, the call of create_item and the response.
create_event_insert(p, f) ==
    /\ pc[p] = "create_insert"
    /\ UNCHANGED <<nreq, overlap>>
    /\ Finish(p)
    /\ LET item == EventItem(event_id[p], data[p].obj)
           ok == f.class = "none" /\ ~CreateConflict(store, item)
           status == IF ok THEN 201 ELSE IF f.class = "none" THEN 409 ELSE 500
           error == IF ok THEN "" ELSE IF f.class = "none" THEN MsgExists
                    ELSE IF f.class = "http" THEN MsgDatabase ELSE MsgInternal
           rivals == {q \in Procs \ {p} :
                         /\ pc[q] = "create_insert"
                         /\ event_id[q] = event_id[p]
                         /\ ~IdTruthy(data[q].obj)
                         /\ ~IdTruthy(data[p].obj)}
       IN  /\ store' = IF ok THEN CreateItem(store, item) ELSE store
           /\ resp' = Response(p, "create_event", event_id[p], data[p], f, status,
                               error, IF ok THEN {item} ELSE {})
           /\ deleted' = IF ok THEN deleted \ {item.id} ELSE deleted
           /\ fresh' = IF ok THEN {d \in fresh : d.id # item.id} \cup {item} ELSE fresh
           /\ race' = IF race.waiting = p THEN NoRace
                      ELSE IF rivals # {}
                      THEN [waiting |-> CHOOSE q \in rivals : TRUE, first |-> status]
                      ELSE race
           /\ IF phase = "creating" /\ f.class = "none"
              THEN /\ run' = run + 1
                   /\ phase' = phase
                   /\ first' = IF run = 0 /\ ok THEN {item} ELSE first
              ELSE Disturb

\* GET /events.
get_events(p, f, lim) ==
    /\ Admit(p, lim)
    /\ resp' = IF f.class = "none"
               THEN Response(p, "get_events", <<>>, NullBody, f, 200, "", store)
               ELSE Response(p, "get_events", <<>>, NullBody, f, 500, MsgInternal, {})
    /\ UNCHANGED <<store, pc, data, event_id, existing_item, deleted, fresh>>
    /\ Quiet(p, f)

\* GET /events/{id}.
get_event(p, id, f, lim) ==
    /\ Admit(p, lim)
    /\ resp' = IF f.class # "none"
               THEN Response(p, "get_event", id, NullBody, f, 500, MsgInternal, {})
               ELSE IF ReadItem(store, id) = {}
               THEN Response(p, "get_event", id, NullBody, f, 404, MsgNotFound, {})
               ELSE Response(p, "get_event", id, NullBody, f, 200, "", ReadItem(store, id))
    /\ UNCHANGED <<store, pc, data, event_id, existing_item, deleted, fresh>>
    /\ Quiet(p, f)

\* PUT /events/{id}, up to the call of replace_item: the body check and the
\* read of the existing item.
update_event_read(p, id, body, f, lim) ==
    /\ Admit(p, lim)
    /\ UNCHANGED <<deleted, fresh>>
    /\ Disturb
    /\ IF body.kind = "malformed"
       THEN /\ f.class = "none"
            /\ Reject(p, "update_event", id, body, f, 500, MsgInternal)
       ELSE IF NotData(body)
       THEN /\ f.class = "none"
            /\ Reject(p, "update_event", id, body, f, 400, MsgNoBody)
       ELSE IF f.class # "none"
       THEN Reject(p, "update_event", id, body, f, 500, MsgInternal)
       ELSE IF ReadItem(store, id) = {}
       THEN Reject(p, "update_event", id, body, f, 404, MsgNotFound)
       ELSE /\ pc' = [pc EXCEPT ![p] = "update_replace"]
            /\ data' = [data EXCEPT ![p] = body]
            /\ event_id' = [event_id EXCEPT ![p] = id]
            /\ existing_item' = [existing_item EXCEPT ![p] = ReadItem(store, id)]
            /\ resp' = Response(p, "update_event", id, body, f, 0, "", {})
            /\ UNCHANGED store

\* PUT /events/{id}, the call of replace_item and the response.
update_event_replace(p, f) ==
    /\ pc[p] = "update_replace"
    /\ UNCHANGED <<nreq, deleted, race>>
    /\ Finish(p)
    /\ Disturb
    /\ LET existing == CHOOSE d \in existing_item[p] : TRUE
           updated == UpdatedItemData(existing, data[p].obj)
           ok == f.class = "none" /\ ~ReplaceMissing(store, existing.id)
           others == {q \in Procs \ {p} :
                         pc[q] = "update_replace" /\ event_id[q] = event_id[p]}
       IN  /\ store' = IF ok THEN ReplaceItem(store, existing.id, updated) ELSE store
           /\ resp' = IF ok
                      THEN Response(p, "update_event", event_id[p], data[p], f, 200, "",
                                    {updated})
                      ELSE IF f.class = "none"
                      THEN Response(p, "update_event", event_id[p], data[p], f, 404,
                                    MsgNotFound, {})
                      ELSE Response(p, "update_event", event_id[p], data[p], f, 500,
                                    MsgInternal, {})
           /\ fresh' = IF ok THEN {d \in fresh : d.id # existing.id} ELSE fresh
           /\ overlap' = IF overlap.waiting = p THEN NoOverlap
                         ELSE IF ok /\ others # {}
                         THEN [waiting |-> CHOOSE q \in others : TRUE,
                               obj |-> data[p].obj,
                               base |-> ReadItem(store, existing.id)]
                         ELSE overlap

\* DELETE /events/{id}.
delete_event(p, id, f, lim) ==
    /\ Admit(p, lim)
    /\ UNCHANGED <<pc, data, event_id, existing_item>>
    /\ LET ok == f.class = "none" /\ ~DeleteMissing(store, id)
       IN  /\ store' = IF ok THEN DeleteItem(store, id) ELSE store
           /\ resp' = IF ok
                      THEN Response(p, "delete_event", id, NullBody, f, 204, "", {})
                      ELSE IF f.class = "none"
                      THEN Response(p, "delete_event", id, NullBody, f, 404, MsgNotFound, {})
                      ELSE Response(p, "delete_event", id, NullBody, f, 500, MsgInternal, {})
           /\ deleted' = IF ok THEN deleted \cup {id} ELSE deleted
           /\ fresh' = IF ok THEN {d \in fresh : d.id # id} ELSE fresh
           /\ IF phase = "creating" /\ run >= 1 /\ id = Id1 /\ ok /\ Alone(p)
              THEN run' = run /\ phase' = "deleted" /\ first' = first
              ELSE Disturb

\* ---------------------------------------------------------- specifications
\* Any interleaving of the container calls of the requests of two slots, any
\* call of which may fail.
Next ==
    \E p \in Procs :
        \/ \E body \in CreateBodies, f \in CatchAllFaults :
               create_event_begin(p, body, f, MaxReqs)
        \/ \E f \in Faults : create_event_insert(p, f)
        \/ \E f \in CatchAllFaults : get_events(p, f, MaxReqs)
        \/ \E id \in PathIds, f \in CatchAllFaults : get_event(p, id, f, MaxReqs)
        \/ \E id \in PathIds, body \in UpdateBodies, f \in CatchAllFaults :
               update_event_read(p, id, body, f, MaxReqs)
        \/ \E f \in CatchAllFaults : update_event_replace(p, f)
        \/ \E id \in PathIds, f \in CatchAllFaults : delete_event(p, id, f, MaxReqs)

Spec == Init /\ [][Next]_vars

\* The scenario: one client, one request at a time, no failing call; creates
\* without id, and reads and deletes of id "1".
RunNext ==
    \/ \E body \in RunBodies : create_event_begin(1, body, Answered, MaxRun)
    \/ create_event_insert(1, Answered)
    \/ get_event(1, Id1, Answered, MaxRun)
    \/ delete_event(1, Id1, Answered, MaxRun)

RunInit == Init /\ store = {}

RunSpec == RunInit /\ [][RunNext]_vars

\* As Spec, with exceptions of two texts: what a response could take from the
\* text of an exception differs between two steps that are otherwise the same.
TextFaults == {Answered} \cup Raised({"http", "other"}, TwoTexts)
TextCatchAllFaults == {Answered} \cup Raised({"other"}, TwoTexts)

TextNext ==
    \E p \in Procs :
        \/ \E body \in CreateBodies, f \in TextCatchAllFaults :
               create_event_begin(p, body, f, MaxTextReqs)
        \/ \E f \in TextFaults : create_event_insert(p, f)
        \/ \E f \in TextCatchAllFaults : get_events(p, f, MaxTextReqs)
        \/ \E id \in PathIds, f \in TextCatchAllFaults : get_event(p, id, f, MaxTextReqs)
        \/ \E id \in PathIds, body \in UpdateBodies, f \in TextCatchAllFaults :
               update_event_read(p, id, body, f, MaxTextReqs)
        \/ \E f \in TextCatchAllFaults : update_event_replace(p, f)
        \/ \E id \in PathIds, f \in TextCatchAllFaults : delete_event(p, id, f, MaxTextReqs)

TextSpec == Init /\ [][TextNext]_vars

\* As Spec, with fewer requests and with the handlers running on: once a
\* handler has started, the container call of its request returns or raises.
FairNext ==
    \E p \in Procs :
        \/ \E body \in CreateBodies, f \in CatchAllFaults :
               create_event_begin(p, body, f, MaxFairReqs)
        \/ \E f \in Faults : create_event_insert(p, f)
        \/ \E f \in CatchAllFaults : get_events(p, f, MaxFairReqs)
        \/ \E id \in PathIds, f \in CatchAllFaults : get_event(p, id, f, MaxFairReqs)
        \/ \E id \in PathIds, body \in UpdateBodies, f \in CatchAllFaults :
               update_event_read(p, id, body, f, MaxFairReqs)
        \/ \E f \in CatchAllFaults : update_event_replace(p, f)
        \/ \E id \in PathIds, f \in CatchAllFaults : delete_event(p, id, f, MaxFairReqs)

HandlerRuns(p) ==
    /\ WF_vars(\E f \in Faults : create_event_insert(p, f))
    /\ WF_vars(\E f \in CatchAllFaults : update_event_replace(p, f))

FairSpec == Init /\ [][FairNext]_vars /\ \A p \in Procs : HandlerRuns(p)

\* ------------------------------------------------------------------ claims
\* What a step is, read from what it records.
\* The step admits a request of handler op.
Arrives(op) == nreq' = nreq + 1 /\ resp'.op = op
\* The step sends the response of a request of handler op.
Answers(op) == resp' # resp /\ resp'.op = op /\ resp'.status # 0
\* The container call of the step answered.
NoFault == resp'.fault.class = "none"

MaxOf(S) == CHOOSE m \in S : \A x \in S : x <= m

\* The id the specification assigns: one more than the greatest stored id
\* that parses as an integer, "1" when none does.
ExpectedId(s) ==
    LET nums == {DigitsValue(d.id) : d \in {e \in s : IsIntString(e.id)}}
    IN  IF nums = {} THEN Id1 ELSE IntToStr(MaxOf(nums) + 1)

\* C1: whatever the container holds, a valid create without an explicit id
\* is assigned the string of (the greatest stored id that parses as an
\* integer) + 1, and "1" when no stored id parses as an integer.
C1_AssignedIdIsNumericMaxPlusOne ==
    [][(Arrives("create_event") /\ resp'.status = 0 /\ ~IdTruthy(resp'.data.obj))
         => resp'.id = ExpectedId(store)]_vars

\* C2: from the empty container, one request at a time and no failing call,
\* the k-th of successive valid creates without id returns 201 with id
\* str(k), for every k; then GET of "1" returns 200 with the first record,
\* DELETE of "1" returns 204 and a further GET of "1" returns 404.
C2_RunOfCreates ==
    [][/\ (phase = "creating" /\ Answers("create_event"))
            => resp'.status = 201 /\ resp'.id = IntToStr(run + 1)
       /\ (phase = "creating" /\ run >= 1 /\ Answers("get_event") /\ resp'.id = Id1)
            => resp'.status = 200 /\ resp'.body = first
       /\ (phase = "creating" /\ run >= 1 /\ Answers("delete_event") /\ resp'.id = Id1)
            => resp'.status = 204
       /\ (phase = "deleted" /\ Answers("get_event") /\ resp'.id = Id1)
            => resp'.status = 404]_vars

\* C3: a create whose id, given or computed, is the id of a stored record is
\* answered 409 by the container's insert, and the container (the record
\* under that id included) is the same after the request.
C3_ExistingIdConflicts ==
    [][(Answers("create_event") /\ pc[resp'.proc] = "create_insert" /\ NoFault
            /\ resp'.id \in StoredIds(store))
         => /\ resp'.status = 409
            /\ resp'.error = MsgExists
            /\ store' = store]_vars

\* C3 happens: a create was answered 409 while the record stored under its
\* id differs from the one it carried.
C3_Witness ==
    /\ resp.op = "create_event"
    /\ resp.status = 409
    /\ \E d \in store : d.id = resp.id /\ d.name # resp.data.obj["name"]

\* C4: for an id that is not stored, get(id), update(id, payload) for every
\* payload object, and delete(id) each return 404 and leave the container
\* unchanged.
C4_AbsentIdIs404 ==
    [][(/\ \/ Answers("get_event")
           \/ Answers("delete_event")
           \/ Answers("update_event") /\ resp'.data.kind = "object"
        /\ NoFault
        /\ resp'.id \notin StoredIds(store))
         => resp'.status = 404 /\ store' = store]_vars

\* C5: for a stored id, update(id, {}) with the empty JSON object returns 200
\* with the stored record, and alters no field of the stored record.
C5_EmptyUpdateReturnsRecord ==
    [][/\ (/\ Arrives("update_event")
           /\ resp'.data.kind = "object"
           /\ DOMAIN resp'.data.obj = {}
           /\ NoFault
           /\ resp'.id \in StoredIds(store))
         => /\ resp'.status = 0
            /\ existing_item'[resp'.proc] = ReadItem(store, resp'.id)
            /\ store' = store
       /\ (/\ Answers("update_event")
           /\ pc[resp'.proc] = "update_replace"
           /\ DOMAIN data[resp'.proc].obj = {}
           /\ NoFault
           /\ resp'.id \in StoredIds(store))
         => /\ resp'.status = 200
            /\ resp'.body = ReadItem(store, resp'.id)
            /\ store' = store]_vars

Fields == {"name", "date", "description"}

\* C6: a successful update of a stored id returns and stores a record with
\* the same id in which each of name, date and description is the payload's
\* value when the payload has that key and is otherwise the value of the
\* stored record the update read; the record replaces the one stored under
\* the id and nothing else changes.
C6_UpdateMergesPayload ==
    [][/\ (Arrives("update_event") /\ resp'.status = 0)
            => /\ existing_item'[resp'.proc] = ReadItem(store, resp'.id)
               /\ existing_item'[resp'.proc] # {}
       /\ (Answers("update_event") /\ resp'.status = 200)
            => LET p == resp'.proc
                   old == CHOOSE d \in existing_item[p] : TRUE
                   obj == data[p].obj
               IN  \E u \in resp'.body :
                       /\ resp'.body = {u}
                       /\ u.id = resp'.id
                       /\ u.id = old.id
                       /\ \A k \in Fields :
                              u[k] = IF k \in DOMAIN obj THEN obj[k] ELSE old[k]
                       /\ store' = {d \in store : d.id # u.id} \cup {u}]_vars

\* C6 happens: an update whose payload holds only a name was answered 200
\* with a record that has the payload's name and a date that is not empty.
C6_Witness ==
    /\ resp.op = "update_event"
    /\ resp.status = 200
    /\ DOMAIN resp.data.obj = {"name"}
    /\ \E u \in resp.body : u.name = resp.data.obj["name"] /\ u.date = "D" /\ u \in store

\* The body gives all of name, date and description, none of them empty.
AllGiven(body) ==
    /\ body.kind = "object"
    /\ \A k \in Fields : k \in DOMAIN body.obj /\ body.obj[k] # ""

\* C7: a create whose (parsed) body lacks one of name, date, description, or
\* has one of them empty, returns 400, starts no container call and leaves
\* the container unchanged, with or without an explicit id.
C7_InvalidCreateIs400 ==
    [][(Arrives("create_event") /\ resp'.data.kind # "malformed"
            /\ ~AllGiven(resp'.data))
         => /\ resp'.status = 400
            /\ resp'.error = MsgMissingFields
            /\ store' = store
            /\ pc' = pc]_vars

\* C7 happens: a create that gave an id but no description was answered 400.
C7_Witness ==
    /\ resp.op = "create_event"
    /\ resp.status = 400
    /\ resp.data.kind = "object"
    /\ "id" \in DOMAIN resp.data.obj
    /\ "description" \notin DOMAIN resp.data.obj

\* C8: once delete(id) has returned 204, and until a create of that id
\* returns 201, get(id) returns 404, delete(id) returns 404, list() holds no
\* record with that id, and the container holds none.
C8_DeletedStaysGone ==
    [][/\ ((Answers("get_event") \/ Answers("delete_event")) /\ NoFault
              /\ resp'.id \in deleted)
            => resp'.status = 404
       /\ (Answers("get_events") /\ NoFault)
            => \A d \in resp'.body : d.id \notin deleted
       /\ StoredIds(store') \cap deleted' = {}]_vars

\* C8 happens: a second delete of a deleted id was answered 404.
C8_Witness ==
    /\ resp.op = "delete_event"
    /\ resp.status = 404
    /\ resp.id \in deleted

\* C9: a create that returns 201 returns a record with the given name, date
\* and description and with the given id when one was given (not empty); a
\* get of that id before any update or delete of it returns 200 with that
\* record.
C9_CreateGetRoundTrip ==
    [][/\ (Answers("create_event") /\ resp'.status = 201)
            => \E r \in resp'.body :
                   /\ resp'.body = {r}
                   /\ \A k \in Fields : r[k] = resp'.data.obj[k]
                   /\ IdTruthy(resp'.data.obj) => r.id = resp'.data.obj["id"]
                   /\ r \in fresh'
       /\ (Answers("get_event") /\ NoFault /\ resp'.id \in StoredIds(fresh))
            => /\ resp'.status = 200
               /\ resp'.body = {r \in fresh : r.id = resp'.id}]_vars

\* C9 happens: a get returned the record a create with an explicit id had
\* returned.
C9_Witness ==
    /\ resp.op = "get_event"
    /\ resp.status = 200
    /\ resp.id = IdA
    /\ resp.body # {}
    /\ resp.body \subseteq fresh

\* C10: of two valid creates without explicit id that are in flight together
\* with the same computed id (no other request arriving, no failing call),
\* exactly one returns 201 and the other 409, and exactly one record with
\* that id is stored, the winner's.
C10_RaceHasOneWinner ==
    [][(Answers("create_event") /\ race.waiting = resp'.proc /\ NoFault
            /\ race.first # 500)
         => /\ {race.first, resp'.status} = {201, 409}
            /\ Cardinality(ReadItem(store', resp'.id)) = 1
            /\ resp'.status = 201 => resp'.body \subseteq store']_vars

\* No two stored records have the same id.
UniqueIds(s) == \A d1 \in s, d2 \in s : d1.id = d2.id => d1 = d2

\* C11: under every interleaving of creates, updates and deletes no two
\* stored records have the same id, and an update changes the id of no stored
\* record, whatever its payload holds (an id key included): the ids stored
\* are the same after it, the record it returns has the id of the path, and
\* every other record is as it was.
C11_IdsUniqueAndImmutable ==
    [][/\ UniqueIds(store')
       /\ resp'.op = "update_event"
            => /\ StoredIds(store') = StoredIds(store)
               /\ \A d \in store : d.id # resp'.id => d \in store'
       /\ (resp'.op = "update_event" /\ resp'.status = 200)
            => /\ \A u \in resp'.body : u.id = resp'.id
               /\ resp'.body = ReadItem(store', resp'.id)]_vars

\* C11 happens: an update whose payload holds an id other than the id of the
\* path was answered 200, beside a second stored record.
C11_Witness ==
    /\ resp.op = "update_event"
    /\ resp.status = 200
    /\ "id" \in DOMAIN resp.data.obj
    /\ resp.data.obj["id"] # resp.id
    /\ ReadItem(store, resp.id) # {}
    /\ Cardinality(store) = 2

\* C12: an update whose body is absent (get_json gives None) or does not
\* parse is answered 400 with no read and no write of the container, whether
\* the id of the path is stored or not.
C12_BodylessUpdateIs400 ==
    [][(Arrives("update_event") /\ resp'.data.kind # "object")
         => /\ resp'.status = 400
            /\ resp'.error = MsgNoBody
            /\ store' = store
            /\ existing_item' = existing_item
            /\ pc' = pc]_vars

\* The fixed messages of the service.
FixedMessages ==
    {MsgMissingFields, MsgExists, MsgDatabase, MsgInternal, MsgNotFound, MsgNoBody}

\* The message of a failed request as a function of the handler, the status,
\* the class of the exception and whether the call that raised was create_item.
ErrorFor(op, status, class, inserting) ==
    IF status = 400
    THEN IF op = "create_event" THEN MsgMissingFields ELSE MsgNoBody
    ELSE IF status = 404 THEN MsgNotFound
    ELSE IF status = 409 THEN MsgExists
    ELSE IF class = "http" /\ inserting THEN MsgDatabase
    ELSE MsgInternal

\* C13: the body of the response of a failed request is determined by the
\* handler and the kind of the failure alone: it is {"error": m} with m the
\* fixed message of that handler and kind, with no document in it, so two
\* steps that differ only in the text of the exception the container raised
\* answer the same; a request that did not fail carries no message.
C13_ErrorBodyIgnoresExceptionText ==
    [][resp'.status # 0
         => IF resp'.status >= 400
            THEN /\ resp'.error \in FixedMessages
                 /\ resp'.error = ErrorFor(resp'.op, resp'.status, resp'.fault.class,
                                           pc[resp'.proc] = "create_insert")
                 /\ resp'.body = {}
            ELSE resp'.error = ""]_vars

\* C13 happens: an insert that raised an exception with the second of two
\* texts was answered 500 'Database error'.
C13_Witness ==
    /\ resp.op = "create_event"
    /\ resp.status = 500
    /\ resp.fault.class = "http"
    /\ resp.fault.text = "Service unavailable"
    /\ resp.error = MsgDatabase

\* The statuses of each route.
StatusesOf(op) ==
    IF op = "create_event" THEN {201, 400, 409, 500}
    ELSE IF op = "get_events" THEN {200, 500}
    ELSE IF op = "get_event" THEN {200, 404, 500}
    ELSE IF op = "update_event" THEN {200, 400, 404, 500}
    ELSE {204, 404, 500}

\* C14: every request ends with one response, whose status is one of those
\* of its route: a step either answers the request, with such a status, and
\* ends it, or leaves it in flight unanswered, and a request in flight is
\* answered in the end; a container call that raises anything but not-found
\* or already-exists, the MAX query of create included, is answered 500.
C14_OneResponseOfTheRoute ==
    /\ [][/\ (resp'.status # 0)
               => (resp'.status \in StatusesOf(resp'.op) /\ pc'[resp'.proc] = "idle")
          /\ (resp'.status = 0) => (pc'[resp'.proc] # "idle")
          /\ (resp'.fault.class # "none") => (resp'.status = 500)]_vars
    /\ \A p \in Procs : (pc[p] # "idle") ~> (pc[p] = "idle")

\* C14 happens: a create without id whose MAX query raised was answered 500.
C14_Witness ==
    /\ resp.op = "create_event"
    /\ resp.status = 500
    /\ resp.fault.class = "other"
    /\ resp.id = <<>>
    /\ ValidCreate(resp.data)

\* C15: of two updates of one stored id that are in flight together and both
\* return 200 (no other request arriving), the record stored in the end is
\* the result of applying the two payloads, one after the other in some
\* order, to the record stored before the first of them replaced: no field
\* change of either update is lost.
C15_ConcurrentUpdatesSerialize ==
    [][(resp'.op = "update_event" /\ resp'.status = 200
            /\ overlap.waiting = resp'.proc)
         => LET mine == data[resp'.proc].obj
                theirs == overlap.obj
            IN  \E base \in overlap.base :
                    \/ ReadItem(store', resp'.id)
                           = {UpdatedItemData(UpdatedItemData(base, theirs), mine)}
                    \/ ReadItem(store', resp'.id)
                           = {UpdatedItemData(UpdatedItemData(base, mine), theirs)}]_vars

\* C16: in every reachable state every stored record has a name, a date and
\* a description that are not empty.
C16_StoredFieldsNonEmpty ==
    \A d \in store : \A k \in Fields : d[k] # ""

\* C17: a valid create without an explicit id that runs with no other
\* request in flight or handled between its MAX query and its insert, and
\* with no failing call, is not answered 409: the id it computed is the id of
\* no stored record, whatever the service stored before.
C17_ComputedIdIsFree ==
    [][(/\ resp'.op = "create_event"
        /\ pc[resp'.proc] = "create_insert"
        /\ ~IdTruthy(data[resp'.proc].obj)
        /\ resp.op = "create_event" /\ resp.proc = resp'.proc /\ resp.status = 0
        /\ Alone(resp'.proc)
        /\ NoFault)
         => /\ resp'.id \notin StoredIds(store)
            /\ resp'.status # 409]_vars

\* C18: under every interleaving the set of stored ids grows only by a create
\* answered 201, by the id of that create, and shrinks only by a delete
\* answered 204, by the id of that delete; an update inserts no record: an
\* update in flight whose id was deleted after it read the record is
\* answered 404 and leaves the container as it is, without the record.
C18_OnlyCreateAddsOnlyDeleteRemoves ==
    [][/\ (StoredIds(store') \ StoredIds(store) # {})
            => /\ resp'.op = "create_event"
               /\ resp'.status = 201
               /\ StoredIds(store') = StoredIds(store) \cup {resp'.id}
       /\ (StoredIds(store) \ StoredIds(store') # {})
            => /\ resp'.op = "delete_event"
               /\ resp'.status = 204
               /\ StoredIds(store') = StoredIds(store) \ {resp'.id}
       /\ (resp'.op = "update_event" /\ pc[resp'.proc] = "update_replace"
              /\ resp'.id \in deleted /\ NoFault)
            => /\ resp'.status = 404
               /\ store' = store
               /\ resp'.id \notin StoredIds(store')]_vars

\* C18 happens: the update of slot 2 was answered 404 for a deleted id while
\* slot 1 is idle.  An arriving request takes slot 1 when it is free, so the
\* update was in flight, its read done, when the delete was answered 204.
C18_Witness ==
    /\ resp.op = "update_event"
    /\ resp.status = 404
    /\ resp.proc = 2
    /\ pc[1] = "idle"
    /\ resp.id \in deleted
    /\ resp.id \notin StoredIds(store)

\* C19: a get of one record and a list leave the container unchanged in
\* every case, and no step of a request answered 400, 404 or 409 changes the
\* container: not the step that answers, and not the step before it, in which
\* a create or an update that is still in flight has only read.
C19_ReadsAndClientErrorsWriteNothing ==
    [][/\ (resp'.op \in {"get_event", "get_events"}) => (store' = store)
       /\ (resp'.status \in {400, 404, 409}) => (store' = store)
       /\ (resp'.status = 0) => (store' = store)]_vars

\* C19 happens: an update of a stored id was answered 400, and the record is
\* stored.
C19_Witness ==
    /\ resp.op = "update_event"
    /\ resp.status = 400
    /\ resp.id \in StoredIds(store)

====
